---- MODULE Spec2Model ----
(***************************************************************************)
(* Calibrated prediction pipeline: the training script's artifact store    *)
(* (src/src/ml/train.py) and the inference server's model holder and       *)
(* scoring endpoints (src/src/ml/inference.py).                            *)
(*                                                                         *)
(* Probabilities are integers in units of 10^-5 (100000 is 1.0), so that   *)
(* round(prob, 4) is a rounding to a multiple of 10.                       *)
(***************************************************************************)
EXTENDS Integers, Sequences, FiniteSets, TLC

VARIABLES
    model_path,            \* content of crypto_model.pkl on disk
    meta_path,             \* content of crypto_model_meta.json on disk
    calibrated_model,      \* CryptoModelTrainer.calibrated_model
    self_feature_columns,  \* CryptoModelTrainer.feature_columns
    trPc,                  \* position of the training process inside save_model
    saves,                 \* number of save_model calls started (stamps trained_at)
    trResult,              \* outcome of the trainer's last call
    model,                 \* inference.py global `model`
    metadata,              \* inference.py global `metadata`
    feature_columns,       \* inference.py global `feature_columns`
    srvPc,                 \* position of the server inside load_model
    loadResult,            \* outcome of the server's last load_model call
    request,               \* the last scoring request received
    response               \* the response given to it

diskVars    == <<model_path, meta_path>>
trainerVars == <<calibrated_model, self_feature_columns, trPc, saves, trResult>>
serverVars  == <<model, metadata, feature_columns, srvPc, loadResult>>
callVars    == <<request, response>>
vars        == <<model_path, meta_path, calibrated_model, self_feature_columns,
                 trPc, saves, trResult, model, metadata, feature_columns,
                 srvPc, loadResult, request, response>>

----------------------------------------------------------------------------
(* Bounds *)

MaxBatch == 3
MaxSaves == 2

----------------------------------------------------------------------------
(* Feature schema *)

\* CryptoModelTrainer.__init__: self.feature_columns
TrainerSchema ==
    << "rsi", "macd", "macd_signal", "macd_histogram",
       "ema_20", "ema_50", "atr", "atr_percent",
       "bb_position", "volume_ratio",
       "price_vs_ema20", "price_vs_ema50",
       "ema20_trend", "ema50_trend",
       "price_above_ema20", "price_above_ema50",
       "ema20_above_ema50",
       "momentum_24h", "momentum_7d",
       "market_cap_tier", "volatility_tier",
       "btc_correlation", "market_regime" >>

\* _extract_features: the order in which the server lays out a feature vector
ExtractFeaturesOrder ==
    << "rsi", "macd", "macd_signal", "macd_histogram",
       "ema_20", "ema_50", "atr", "atr_percent",
       "bb_position", "volume_ratio",
       "price_vs_ema20", "price_vs_ema50",
       "ema20_trend", "ema50_trend",
       "price_above_ema20", "price_above_ema50",
       "ema20_above_ema50",
       "momentum_24h", "momentum_7d",
       "market_cap_tier", "volatility_tier",
       "btc_correlation", "market_regime" >>

Range(s) == { s[i] : i \in 1..Len(s) }

----------------------------------------------------------------------------
(* Values *)

\* Python None for a model reference; also the shape of every model value
NoModel == [kind |-> "none", gen |-> 0, cols |-> <<>>, fitted |-> FALSE]

\* Python None for the metadata dict; also the shape of every metadata value
NoMeta  == [kind |-> "none", gen |-> 0, features |-> <<>>, hasFeatures |-> FALSE]

\* a path with no file, and a file opened for writing whose content is not
\* (yet) completely written
AbsentModel  == [NoModel EXCEPT !.kind = "absent"]
PartialModel == [NoModel EXCEPT !.kind = "partial"]
AbsentMeta   == [NoMeta EXCEPT !.kind = "absent"]
PartialMeta  == [NoMeta EXCEPT !.kind = "partial"]

\* a pickled calibrated model, fitted on the columns cols, written by save g
ModelFile(g, cols, fitted) ==
    [kind |-> "model", gen |-> g, cols |-> cols, fitted |-> fitted]

\* the metadata dict of save_model, written by save g
MetaFile(g, features) ==
    [kind |-> "meta", gen |-> g, features |-> features, hasFeatures |-> TRUE]

\* a metadata record that parses but has no 'features' key
MetaNoFeatures ==
    [kind |-> "meta", gen |-> 0, features |-> <<>>, hasFeatures |-> FALSE]

ShortSchema == Tail(TrainerSchema)
ReorderedSchema ==
    <<TrainerSchema[2], TrainerSchema[1]>> \o SubSeq(TrainerSchema, 3, Len(TrainerSchema))

\* the artifact pairs found on disk when the processes start
InitialArtifacts ==
    { <<AbsentModel, AbsentMeta>>,
      <<ModelFile(0, TrainerSchema, TRUE), MetaFile(0, TrainerSchema)>>,
      <<ModelFile(0, ShortSchema, TRUE), MetaFile(0, ShortSchema)>>,
      <<ModelFile(0, ReorderedSchema, TRUE), MetaFile(0, ReorderedSchema)>>,
      <<ModelFile(0, TrainerSchema, TRUE), MetaFile(0, <<>>)>>,
      <<ModelFile(0, TrainerSchema, TRUE), MetaNoFeatures>>,
      <<ModelFile(0, TrainerSchema, TRUE), AbsentMeta>>,
      <<ModelFile(0, TrainerSchema, TRUE), PartialMeta>> }

NoRequest  == [op |-> "none", coins |-> <<>>]
NoResponse == [status |-> 0, detail |-> "", results |-> <<>>, model_version |-> ""]

----------------------------------------------------------------------------
(* Initial state: module globals of inference.py, a fresh CryptoModelTrainer *)

Init ==
    /\ \E a \in InitialArtifacts : model_path = a[1] /\ meta_path = a[2]
    /\ calibrated_model = NoModel
    /\ self_feature_columns = TrainerSchema
    /\ trPc = "idle"
    /\ saves = 0
    /\ trResult = "none"
    /\ model = NoModel
    /\ metadata = NoMeta
    /\ feature_columns = <<>>
    /\ srvPc = "idle"
    /\ loadResult = "none"
    /\ request = NoRequest
    /\ response = NoResponse

----------------------------------------------------------------------------
(* Training process: src/src/ml/train.py *)

\* the data frames handed to train: the set of their column names
TrainingFrames ==
    { Range(TrainerSchema) \cup {"target"},
      (Range(TrainerSchema) \ {"rsi"}) \cup {"target"},
      Range(TrainerSchema) }

\* prepare_features: feature_cols, the columns of self.feature_columns found in df
prepare_features(df) ==
    SelectSeq(self_feature_columns, LAMBDA col : col \in df)

\* train(df): the CalibratedClassifierCV is assigned to self.calibrated_model
\* before fit is called; fit raises when there is no target column or no
\* feature column, leaving the unfitted estimator in place
train(df) ==
    /\ trPc = "idle"
    /\ LET feature_cols == prepare_features(df)
           fits == "target" \in df /\ feature_cols # <<>>
       IN  /\ calibrated_model' = ModelFile(0, feature_cols, fits)
           /\ trResult' = IF fits THEN "trained" ELSE "ValueError"
    /\ UNCHANGED <<self_feature_columns, trPc, saves>>
    /\ UNCHANGED <<diskVars, serverVars, callVars>>

\* save_model with nothing trained: raise ValueError("No trained model to save")
save_model_untrained ==
    /\ trPc = "idle"
    /\ calibrated_model.kind = "none"
    /\ trResult' = "ValueError"
    /\ UNCHANGED <<calibrated_model, self_feature_columns, trPc, saves>>
    /\ UNCHANGED <<diskVars, serverVars, callVars>>

\* save_model, joblib.dump opens the model file for writing
save_model_open_pkl ==
    /\ trPc = "idle"
    /\ calibrated_model.kind # "none"
    /\ saves < MaxSaves
    /\ saves' = saves + 1
    /\ model_path' = PartialModel
    /\ trPc' = "dump"
    /\ UNCHANGED <<calibrated_model, self_feature_columns, trResult>>
    /\ UNCHANGED <<meta_path, serverVars, callVars>>

\* save_model, joblib.dump has written the model file
save_model_dump ==
    /\ trPc = "dump"
    /\ model_path' = ModelFile(saves, calibrated_model.cols, calibrated_model.fitted)
    /\ trPc' = "dumped"
    /\ UNCHANGED <<calibrated_model, self_feature_columns, saves, trResult>>
    /\ UNCHANGED <<meta_path, serverVars, callVars>>

\* save_model, open(meta_path, 'w') truncates the metadata file
save_model_open_meta ==
    /\ trPc = "dumped"
    /\ meta_path' = PartialMeta
    /\ trPc' = "meta"
    /\ UNCHANGED <<calibrated_model, self_feature_columns, saves, trResult>>
    /\ UNCHANGED <<model_path, serverVars, callVars>>

\* save_model, json.dump has written {'features': self.feature_columns, ...}
save_model_write_meta ==
    /\ trPc = "meta"
    /\ meta_path' = MetaFile(saves, self_feature_columns)
    /\ trPc' = "idle"
    /\ trResult' = "saved"
    /\ UNCHANGED <<calibrated_model, self_feature_columns, saves>>
    /\ UNCHANGED <<model_path, serverVars, callVars>>

\* CryptoModelTrainer.load_model: the outcome of the call and the fields it
\* has assigned by the time it returns or raises
trainer_load_model ==
    /\ trPc = "idle"
    /\ IF model_path.kind = "absent" THEN
            /\ trResult' = "FileNotFoundError"
            /\ UNCHANGED <<calibrated_model, self_feature_columns>>
       ELSE IF model_path.kind = "partial" THEN
            /\ trResult' = "UnpicklingError"
            /\ UNCHANGED <<calibrated_model, self_feature_columns>>
       ELSE /\ calibrated_model' = [model_path EXCEPT !.gen = 0]
            /\ IF meta_path.kind = "absent" THEN
                    /\ trResult' = "FileNotFoundError"
                    /\ UNCHANGED self_feature_columns
               ELSE IF meta_path.kind = "partial" THEN
                    /\ trResult' = "JSONDecodeError"
                    /\ UNCHANGED self_feature_columns
               ELSE IF ~meta_path.hasFeatures THEN
                    /\ trResult' = "KeyError"
                    /\ UNCHANGED self_feature_columns
               ELSE /\ self_feature_columns' = meta_path.features
                    /\ trResult' = "loaded"
    /\ UNCHANGED <<trPc, saves>>
    /\ UNCHANGED <<diskVars, serverVars, callVars>>

\* main(): a training process starts with a new CryptoModelTrainer; a save
\* the previous process was interrupted in stays as far as it got
trainer_init ==
    /\ calibrated_model' = NoModel
    /\ self_feature_columns' = TrainerSchema
    /\ trPc' = "idle"
    /\ trResult' = "none"
    /\ UNCHANGED saves
    /\ UNCHANGED <<diskVars, serverVars, callVars>>

----------------------------------------------------------------------------
(* Inference server: src/src/ml/inference.py *)

\* load_model up to joblib.load: the early return when no model file exists,
\* else the assignment of the global `model`
load_model_pkl ==
    /\ srvPc = "idle"
    /\ IF model_path.kind = "absent" THEN
            /\ loadResult' = "no_model_found"
            /\ UNCHANGED <<model, srvPc>>
       ELSE IF model_path.kind = "partial" THEN
            /\ loadResult' = "UnpicklingError"
            /\ UNCHANGED <<model, srvPc>>
       ELSE /\ model' = model_path
            /\ srvPc' = "meta"
            /\ loadResult' = "loading"
    /\ UNCHANGED <<metadata, feature_columns>>
    /\ UNCHANGED <<diskVars, trainerVars, callVars>>

\* load_model from open(meta_path) on: metadata and feature_columns
load_model_meta ==
    /\ srvPc = "meta"
    /\ srvPc' = "idle"
    /\ IF meta_path.kind = "absent" THEN
            /\ loadResult' = "FileNotFoundError"
            /\ UNCHANGED <<metadata, feature_columns>>
       ELSE IF meta_path.kind = "partial" THEN
            /\ loadResult' = "JSONDecodeError"
            /\ UNCHANGED <<metadata, feature_columns>>
       ELSE /\ metadata' = meta_path
            /\ IF ~meta_path.hasFeatures THEN
                    /\ loadResult' = "KeyError"
                    /\ UNCHANGED feature_columns
               ELSE /\ feature_columns' = meta_path.features
                    /\ loadResult' = "loaded"
    /\ UNCHANGED model
    /\ UNCHANGED <<diskVars, trainerVars, callVars>>

----------------------------------------------------------------------------
(* Scoring: predict_single and predict_batch *)

\* a CoinFeatures record: its coin_id, the positive-class probability the
\* fitted model gives for its feature vector, and whether its features are
\* all finite (predict_proba raises on a non-finite value)
Coin(id, score, finite) == [coin_id |-> id, score |-> score, finite |-> finite]

\* the records sent to /predict
SingleCoins ==
    { Coin("btc", 0, TRUE),      Coin("btc", 49994, TRUE),
      Coin("btc", 49996, TRUE),  Coin("btc", 50000, TRUE),
      Coin("btc", 54996, TRUE),  Coin("btc", 55000, TRUE),
      Coin("btc", 69996, TRUE),  Coin("btc", 70000, TRUE),
      Coin("btc", 12345, TRUE),  Coin("btc", 12355, TRUE),
      Coin("btc", 100000, TRUE), Coin("btc", 60000, FALSE) }

\* the records sent in the list of /predict/batch
BatchCoins ==
    { Coin("btc", 90000, TRUE), Coin("eth", 60000, TRUE),
      Coin("sol", 60004, TRUE), Coin("xrp", 30000, FALSE) }

Batches == UNION { [1..n -> BatchCoins] : n \in 0..MaxBatch }

\* round(prob, 4): to the nearest multiple of 10^-4, a tie going to the even one
Round4(prob) ==
    LET q == prob \div 10
        r == prob % 10
    IN  IF r < 5 THEN 10 * q
        ELSE IF r > 5 THEN 10 * (q + 1)
        ELSE IF q % 2 = 0 THEN 10 * q ELSE 10 * (q + 1)

\* prediction = int(prob >= 0.5)
Prediction(prob) == IF prob >= 50000 THEN 1 ELSE 0

\* the if/elif/else on prob that sets confidence
Confidence(prob) ==
    IF prob >= 70000 THEN "high"
    ELSE IF prob >= 55000 THEN "medium"
    ELSE "low"

\* the PredictionResult built for one coin out of prob
PredictionResult(coin) ==
    [coin_id     |-> coin.coin_id,
     probability |-> Round4(coin.score),
     confidence  |-> Confidence(coin.score),
     prediction  |-> Prediction(coin.score)]

\* model.predict_proba([features]) raises: on an estimator that was never
\* fitted (or on None), on a vector whose length is not the number of columns
\* the model was fitted on, and on a non-finite feature value
PredictProbaRaises(m, coin) ==
    \/ ~m.fitted
    \/ Len(m.cols) # Len(ExtractFeaturesOrder)
    \/ ~coin.finite

\* the tie-reversing ordering: ascending stable sort, then reversed
RECURSIVE InsertAscending(_, _)
InsertAscending(x, s) ==
    IF s = <<>> THEN <<x>>
    ELSE IF Head(s).probability <= x.probability
         THEN <<Head(s)>> \o InsertAscending(x, Tail(s))
         ELSE <<x>> \o s

RECURSIVE SortAscending(_)
SortAscending(s) ==
    IF s = <<>> THEN <<>>
    ELSE InsertAscending(s[Len(s)], SortAscending(SubSeq(s, 1, Len(s) - 1)))

SortAscendingReversed(s) ==
    LET a == SortAscending(s)
    IN  [i \in 1..Len(a) |-> a[Len(a) + 1 - i]]

\* one insertion of the stable descending sort: x goes after every element
\* whose key is at least its own
RECURSIVE InsertDescending(_, _)
InsertDescending(x, s) ==
    IF s = <<>> THEN <<x>>
    ELSE IF Head(s).probability >= x.probability
         THEN <<Head(s)>> \o InsertDescending(x, Tail(s))
         ELSE <<x>> \o s

RECURSIVE SortDescendingFrom(_)
SortDescendingFrom(s) ==
    IF s = <<>> THEN <<>>
    ELSE InsertDescending(s[Len(s)], SortDescendingFrom(SubSeq(s, 1, Len(s) - 1)))

\* predictions.sort(key=lambda x: x.probability, reverse=True): list.sort is
\* stable, and with reverse=True equal keys keep their original order
SortDescending(s) == SortDescendingFrom(s)

\* the guard `if model is None` left out
ModelIsNoneUnchecked == FALSE

\* `if model is None`
ModelIsNone == model.kind = "none"

Unavailable503 ==
    [status |-> 503, detail |-> "Model not loaded. Run train.py first.",
     results |-> <<>>, model_version |-> ""]

\* an exception that leaves the handler: the framework's 500 response
ServerError500 ==
    [status |-> 500, detail |-> "Internal Server Error",
     results |-> <<>>, model_version |-> ""]

\* POST /predict
predict_single(coin) ==
    /\ srvPc = "idle"
    /\ request' = [op |-> "predict_single", coins |-> <<coin>>]
    /\ response' =
         IF ModelIsNone THEN Unavailable503
         ELSE IF PredictProbaRaises(model, coin) THEN ServerError500
         ELSE [status |-> 200, detail |-> "",
               results |-> <<PredictionResult(coin)>>, model_version |-> ""]
    /\ UNCHANGED <<diskVars, trainerVars, serverVars>>

\* POST /predict/batch
predict_batch(coins) ==
    /\ srvPc = "idle"
    /\ request' = [op |-> "predict_batch", coins |-> coins]
    /\ response' =
         IF ModelIsNone THEN Unavailable503
         ELSE IF \E i \in 1..Len(coins) : PredictProbaRaises(model, coins[i])
              THEN ServerError500
         ELSE IF metadata.kind = "none" THEN ServerError500
         ELSE [status |-> 200, detail |-> "",
               results |-> SortDescending([i \in 1..Len(coins) |-> PredictionResult(coins[i])]),
               model_version |-> "1.0"]
    /\ UNCHANGED <<diskVars, trainerVars, serverVars>>

----------------------------------------------------------------------------
(* Specifications *)

\* the records the artifact-lifecycle specification scores
ProbeCoins == { Coin("btc", 90000, TRUE) }

\* trainer, disk and server together
Next ==
    \/ \E df \in TrainingFrames : train(df)
    \/ save_model_untrained
    \/ save_model_open_pkl
    \/ save_model_dump
    \/ save_model_open_meta
    \/ save_model_write_meta
    \/ trainer_load_model
    \/ trainer_init
    \/ load_model_pkl
    \/ load_model_meta
    \/ \E coin \in ProbeCoins : predict_single(coin)
    \/ \E coin \in ProbeCoins : predict_batch(<<coin>>)

Spec == Init /\ [][Next]_vars

\* the server alone, over the artifacts it finds on disk
NextServe ==
    \/ load_model_pkl
    \/ load_model_meta
    \/ \E coin \in SingleCoins : predict_single(coin)
    \/ \E coins \in Batches : predict_batch(coins)

SpecServe == Init /\ [][NextServe]_vars

----------------------------------------------------------------------------
(* Properties *)

\* a step in which the server answers a scoring request
Answers == <<request, response>>' # <<request, response>>

\* the per-record results of the last request, in the order of its records
PerRecord == [i \in 1..Len(request.coins) |-> PredictionResult(request.coins[i])]

WithProbability(s, p) == SelectSeq(s, LAMBDA r : r.probability = p)

\* C1: while no model is loaded, every predict_single or predict_batch call
\* is answered with the 503 "model not loaded" error, carries no result and
\* no probability, and leaves the disk, the trainer and the server unchanged
C1_UnavailableWithoutModel ==
    [][ (model.kind = "none" /\ Answers) =>
            /\ response' = Unavailable503
            /\ response'.results = <<>>
            /\ UNCHANGED <<diskVars, trainerVars, serverVars>> ]_vars

C1_Witness ==
    /\ model.kind = "none"
    /\ request.op = "predict_batch"
    /\ Len(request.coins) = MaxBatch
    /\ response.status = 503

\* C2: the list predict_batch returns holds exactly the per-record results,
\* in non-increasing order of probability, results of equal probability in
\* the order their records had in the request, each with its record's coin_id
C2_BatchSortedStable ==
    (request.op = "predict_batch" /\ response.status = 200) =>
        LET out == response.results
        IN  /\ Len(out) = Len(PerRecord)
            /\ \A i \in 1..(Len(out) - 1) : out[i].probability >= out[i + 1].probability
            /\ \A i \in 1..Len(PerRecord) :
                  WithProbability(out, PerRecord[i].probability)
                    = WithProbability(PerRecord, PerRecord[i].probability)

C2_Witness ==
    /\ request.op = "predict_batch"
    /\ response.status = 200
    /\ Len(response.results) = MaxBatch
    /\ response.results # PerRecord
    /\ \E i \in 1..(Len(response.results) - 1) :
          /\ response.results[i].probability = response.results[i + 1].probability
          /\ response.results[i].coin_id # response.results[i + 1].coin_id

\* C3: in every returned PredictionResult the probability is within [0, 1]
\* and prediction is 1 exactly when that returned probability is >= 0.5
C3_PredictionAgreesWithReturnedProbability ==
    response.status = 200 =>
        \A i \in 1..Len(response.results) :
            LET r == response.results[i]
            IN  /\ r.probability \in 0..100000
                /\ r.prediction = (IF r.probability >= 50000 THEN 1 ELSE 0)

\* C4: in every returned PredictionResult the confidence is "high" when the
\* returned probability is >= 0.7, "medium" when it is >= 0.55 and below 0.7,
\* "low" when it is below 0.55
C4_ConfidenceAgreesWithReturnedProbability ==
    response.status = 200 =>
        \A i \in 1..Len(response.results) :
            LET r == response.results[i]
            IN  r.confidence = (IF r.probability >= 70000 THEN "high"
                                ELSE IF r.probability >= 55000 THEN "medium"
                                ELSE "low")

\* C5: once load_model has run on metadata whose feature list is not the
\* schema of _extract_features, no model is active
C5_MismatchedSchemaRefused ==
    (srvPc = "idle" /\ metadata.kind = "meta" /\ metadata.hasFeatures
        /\ metadata.features # ExtractFeaturesOrder)
    => model.kind = "none"

\* C6: a load that succeeds holds a model and a metadata record written by
\* the same save_model call
C6_LoadedPairFromOneSave ==
    (srvPc = "idle" /\ loadResult = "loaded") => model.gen = metadata.gen

\* C7: with a usable model loaded, predict_batch answers a request that has
\* a record it can score with the result of every such record, and with no
\* result for a record that cannot be scored
C7_BatchIsolatesFailingRecord ==
    [][ (Answers /\ request'.op = "predict_batch"
            /\ model.fitted /\ Len(model.cols) = Len(ExtractFeaturesOrder)
            /\ metadata.kind = "meta" /\ loadResult = "loaded"
            /\ \E i \in 1..Len(request'.coins) : request'.coins[i].finite) =>
            /\ response'.status = 200
            /\ \A i \in 1..Len(request'.coins) :
                  request'.coins[i].finite =>
                      PredictionResult(request'.coins[i]) \in Range(response'.results)
            /\ \A j \in 1..Len(response'.results) :
                  \E i \in 1..Len(request'.coins) :
                      /\ request'.coins[i].finite
                      /\ response'.results[j] = PredictionResult(request'.coins[i]) ]_vars

\* C8: whenever the server is not inside load_model, the active model and the
\* active metadata are both absent, or both present and of one artifact pair
C8_ActivePairWhole ==
    srvPc = "idle" =>
        \/ model.kind = "none" /\ metadata.kind = "none"
        \/ model.kind = "model" /\ metadata.kind = "meta" /\ model.gen = metadata.gen

\* C9: a load that finds the model file or the metadata file absent ends in
\* an error, and that error is not the one an unparseable feature list gives;
\* for the server's load_model and for CryptoModelTrainer.load_model
C9_AbsentFileIsAnError ==
    [][ /\ (load_model_pkl /\ model_path.kind = "absent")
              => loadResult' = "FileNotFoundError"
        /\ (load_model_meta /\ meta_path.kind = "absent")
              => loadResult' = "FileNotFoundError"
        /\ (trainer_load_model
              /\ (model_path.kind = "absent" \/ meta_path.kind = "absent"))
              => trResult' = "FileNotFoundError" ]_vars

\* C10: the feature list save_model writes to the metadata is the ordered
\* list of columns the model it wrote was fitted on
C10_MetadataListsFittedColumns ==
    (trPc = "idle" /\ model_path.kind = "model" /\ meta_path.kind = "meta"
        /\ meta_path.gen > 0 /\ model_path.gen = meta_path.gen)
    => meta_path.features = model_path.cols

====
